---- MODULE Spec2Model ----
(***************************************************************************)
(* Model of .github/actions/setup-xenserver-sdk/extract_sdk_version.py:    *)
(* one GET of the vendor download page, an HTML parse, a scan of the       *)
(* stripped text nodes for the SDK phrase, and one write of the derived    *)
(* download URL to os.environ['GITHUB_OUTPUT'].                            *)
(*                                                                         *)
(* Strings are sequences of one-character strings, so that strip, the      *)
(* regular expression and the f-string are computed as the code computes   *)
(* them.  A page is a sequence of characters and markup atoms (Tag).       *)
(***************************************************************************)
EXTENDS Integers, Sequences, FiniteSets, TLC

VARIABLES
    pc,          \* position of the interpreter in the script
    response,    \* the name `response` (line 7): NoResponse or [status_code, text]
    soup,        \* the name `soup` (line 13): NoSoup or the parsed text nodes
    consumed,    \* how many strings the for loop (line 17) has taken
    text,        \* the name `text` (line 17): the string the loop is at
    match,       \* the name `match` (line 18): NoMatch or the match found
    environ,     \* os.environ['GITHUB_OUTPUT']
    environ0,    \* the value of os.environ['GITHUB_OUTPUT'] when the run began
    stdout,      \* what print (line 10) has written
    raised,      \* the exception raised by the try body, None when there is none
    uncaught,    \* the exception that left the script unhandled, None when none did
    exitStatus,  \* the status the process ended with, Running while it runs
    gets,        \* number of calls of requests.get issued
    writes       \* number of assignments to os.environ['GITHUB_OUTPUT']

vars == << pc, response, soup, consumed, text, match, environ, environ0, stdout,
           raised, uncaught, exitStatus, gets, writes >>

None == "None"

\* the name `response` before line 7 binds it
NoResponse == [status_code |-> 0, text |-> << >>]

\* the name `soup` before line 13 binds it
NoSoup == [bound |-> FALSE, nodes |-> << >>]

\* exitStatus of a process that has not ended
Running == -1

------------------------------------------------------------------------------
(* Bounds of the model *)

\* a page is built from at most MaxFrags fragments
MaxFrags == 3

------------------------------------------------------------------------------
(* String literals of the script *)

\* the literal part of the pattern, line 15 (the escapes \( \) removed)
Phrase ==
    << "S", "o", "f", "t", "w", "a", "r", "e", " ", "D", "e", "v", "e", "l", "o", "p",
       "m", "e", "n", "t", " ", "K", "i", "t", " ", "(", "S", "D", "K", ")", " " >>

\* the f-string of line 21, cut at its two {version} fields
UrlHead ==
    << "h", "t", "t", "p", "s", ":", "/", "/", "d", "o", "w", "n", "l", "o", "a", "d",
       "s", ".", "x", "e", "n", "s", "e", "r", "v", "e", "r", ".", "c", "o", "m", "/",
       "s", "d", "k", "/" >>

UrlMid ==
    << "/", "X", "e", "n", "S", "e", "r", "v", "e", "r", "-", "S", "D", "K", "-" >>

UrlTail ==
    << ".", "z", "i", "p" >>

\* the literal part of the f-string of line 22
OutputKey ==
    << "X", "E", "N", "S", "E", "R", "V", "E", "R", "_", "S", "D", "K", "_", "U", "R",
       "L", "=" >>

\* the first argument of print, line 10
Diagnostic == "OOps: Failed to get xenserver /downloads"

------------------------------------------------------------------------------
(* The regular expression  Software Development Kit \(SDK\) (\d+\.\d+\.\d+) *)

\* \d
Digits == { "0", "1", "2", "3", "4", "5", "6", "7", "8", "9" }

\* the characters str.strip() removes
Whitespace == { " ", "\t", "\n", "\r" }

\* the character of str at p, None past its end
At(str, p) == IF p >= 1 /\ p <= Len(str) THEN str[p] ELSE None

\* \d+ can match str[a..b]: a run of digits that is not empty
DigitsOnly(str, a, b) == a <= b /\ \A j \in a..b : str[j] \in Digits

\* where the \. after a \d+ that starts at q can be: the dot that ends the
\* run of digits from q on (there is at most one)
DotAfterDigits(str, q) ==
    { a \in (q + 1)..Len(str) : str[a] = "." /\ DigitsOnly(str, q, a - 1) }

\* where a last \d+ that starts at q ends: \d+ is greedy and nothing follows
\* it in the pattern, so it takes every digit there is
GreedyDigitsEnd(str, q) ==
    { e \in q..Len(str) : DigitsOnly(str, q, e) /\ At(str, e + 1) \notin Digits }

\* GroupEnd for the pattern (\d+\.\d+\.\d+(?:\.\d+)?): a fourth component,
\* when str has one, is part of the group
GroupEndDotted(str, q) ==
    LET ends == UNION { UNION { GreedyDigitsEnd(str, b + 1) :
                                  b \in DotAfterDigits(str, a + 1) } :
                        a \in DotAfterDigits(str, q) }
        more == UNION { IF At(str, e + 1) = "." THEN GreedyDigitsEnd(str, e + 2) ELSE {} :
                        e \in ends }
    IN  IF ends = {} THEN 0
        ELSE IF more # {} THEN CHOOSE e \in more : TRUE
        ELSE CHOOSE e \in ends : TRUE

\* Where group 1, (\d+\.\d+\.\d+), ends when it starts at q: the last
\* character of the third run of digits, or 0 when str holds no such version
\* at q.  The first two runs end at the dot that follows them and the third
\* is greedy, so there is one way to match at most.
GroupEnd(str, q) ==
    LET ends == UNION { UNION { GreedyDigitsEnd(str, b + 1) :
                                  b \in DotAfterDigits(str, a + 1) } :
                        a \in DotAfterDigits(str, q) }
    IN  IF ends = {} THEN 0 ELSE CHOOSE e \in ends : TRUE

\* whether the pattern matches str starting exactly at p
MatchesAt(str, p) ==
    /\ p + Len(Phrase) - 1 <= Len(str)
    /\ str[p] = Phrase[1]
    /\ SubSeq(str, p, p + Len(Phrase) - 1) = Phrase
    /\ GroupEnd(str, p + Len(Phrase)) > 0

NoMatch == [start |-> 0, gstart |-> 0, gend |-> 0]

\* the match of the pattern that starts at p
MatchAt(str, p) ==
    [start  |-> p,
     gstart |-> p + Len(Phrase),
     gend   |-> GroupEnd(str, p + Len(Phrase))]

\* Search that returns the rightmost match instead of the leftmost
SearchLast(str) ==
    LET starts == { p \in 1..Len(str) : MatchesAt(str, p) }
    IN  IF starts = {}
        THEN NoMatch
        ELSE CHOOSE m \in { MatchAt(str, p) :
                              p \in { s \in starts : \A o \in starts : s >= o } } : TRUE

\* pattern.search(text), line 18: the leftmost match, None (NoMatch) without one
Search(str) ==
    LET starts == { p \in 1..Len(str) : MatchesAt(str, p) }
    IN  IF starts = {}
        THEN NoMatch
        ELSE CHOOSE m \in { MatchAt(str, p) :
                              p \in { s \in starts : \A o \in starts : s <= o } } : TRUE

\* match.group(1), line 20
Group1(str, m) == SubSeq(str, m.gstart, m.gend)

------------------------------------------------------------------------------
(* BeautifulSoup(response.text, 'html.parser') and soup.stripped_strings *)

\* one markup tag of the page, whatever its name
Tag == "<tag>"

\* where the text nodes of the page start: the characters that follow a tag
\* or open the page
NodeStarts(str) ==
    { k \in 1..Len(str) : str[k] # Tag /\ (k = 1 \/ str[k - 1] = Tag) }

\* the text node that starts at k: the characters from k up to the next tag
NodeAt(str, k) ==
    LET tags == { t \in k..Len(str) : str[t] = Tag }
    IN  IF tags = {} THEN SubSeq(str, k, Len(str))
        ELSE SubSeq(str, k, (CHOOSE t \in tags : \A o \in tags : t <= o) - 1)

\* The text nodes of the page in document order: the runs of characters
\* between tags (line 13).  No node is empty.
Parse(str) ==
    [ i \in 1..Cardinality(NodeStarts(str)) |->
        CHOOSE node \in
            { NodeAt(str, k) :
                k \in { c \in NodeStarts(str) :
                          Cardinality({ o \in NodeStarts(str) : o <= c }) = i } } :
            TRUE ]

\* how many whitespace characters s starts with
Leading(s) ==
    Cardinality({ k \in 1..Len(s) : \A j \in 1..k : s[j] \in Whitespace })

\* how many whitespace characters s ends with
Trailing(s) ==
    Cardinality({ k \in 1..Len(s) : \A j \in k..Len(s) : s[j] \in Whitespace })

\* str.strip(): the text without its leading and trailing whitespace
Strip(s) ==
    IF Leading(s) = Len(s) THEN << >>
    ELSE SubSeq(s, Leading(s) + 1, Len(s) - Trailing(s))

\* a text that strip left something of
NotEmpty(t) == t # << >>

\* soup.stripped_strings, line 17: every text node stripped, the ones that
\* strip to nothing left out
StrippedStrings(nodes) ==
    SelectSeq([ i \in 1..Len(nodes) |-> Strip(nodes[i]) ], NotEmpty)

------------------------------------------------------------------------------
(* Formatting, lines 21 and 22 *)

\* SdkUrl with the version left out of the file name
SdkUrlPathOnly(version) == UrlHead \o version \o UrlMid \o UrlTail

\* f'https://downloads.xenserver.com/sdk/{version}/XenServer-SDK-{version}.zip'
SdkUrl(version) == UrlHead \o version \o UrlMid \o version \o UrlTail

\* f'XENSERVER_SDK_URL={sdk_url}'
OutputLine(sdk_url) == OutputKey \o sdk_url

------------------------------------------------------------------------------
(* The inputs: what the server may hold, and how it may answer *)

V910 == << "9", ".", "1", ".", "0" >>

V821 == << "8", ".", "2", ".", "1" >>

Dot5 == << ".", "5" >>

D7 == << "7" >>

Sp == << " " >>

\* the pieces pages are built from
Fragments ==
    { Phrase \o V910, Phrase \o V821, Phrase, V910, Dot5, D7, Sp, << Tag >> }

RECURSIVE Concat(_)
Concat(fs) == IF fs = << >> THEN << >> ELSE Head(fs) \o Concat(Tail(fs))

\* every page of at most MaxFrags fragments: what the server may hold at
\* /downloads
Pages ==
    { Concat(fs) : fs \in UNION { [1..n -> Fragments] : n \in 0..MaxFrags } }

\* the bodies the server sends with an error status: nothing, or one fragment
ErrorPages == { << >> } \cup Fragments

\* the status codes of an error answer
ErrorCodes == { 404, 503 }

\* the answers the server may give: [status_code, text]
Responses ==
    { [status_code |-> 200, text |-> t] : t \in Pages }
    \cup { [status_code |-> c, text |-> t] : c \in ErrorCodes, t \in ErrorPages }

\* the exceptions requests.get raises when no response arrives
TransportErrors == { "ConnectionError", "Timeout" }

\* the classes `except requests.exceptions.RequestException` (line 9) catches
RequestException == { "ConnectionError", "Timeout", "HTTPError" }

\* os.environ has no key GITHUB_OUTPUT
Unset == << >>

\* a value GITHUB_OUTPUT may hold when the script starts (the runner's file)
RunnerFile == << "/", "o", "u", "t" >>

------------------------------------------------------------------------------
(* The script, statement by statement *)

Init ==
    /\ environ \in { Unset, RunnerFile }
    /\ environ0 = environ
    /\ pc = "get"
    /\ response = NoResponse
    /\ soup = NoSoup
    /\ consumed = 0
    /\ text = << >>
    /\ match = NoMatch
    /\ stdout = << >>
    /\ raised = None
    /\ uncaught = None
    /\ exitStatus = Running
    /\ gets = 0
    /\ writes = 0

\* line 7, a response arrives: response = requests.get(...)
GetResponse ==
    /\ pc = "get"
    /\ \E r \in Responses : response' = r
    /\ gets' = gets + 1
    /\ pc' = "raise_for_status"
    /\ UNCHANGED << soup, consumed, text, match, environ, environ0, stdout, raised,
                    uncaught, exitStatus, writes >>

\* line 7, no response arrives: requests.get raises
GetRaises ==
    /\ pc = "get"
    /\ \E exc \in TransportErrors : raised' = exc
    /\ gets' = gets + 1
    /\ pc' = "except"
    /\ UNCHANGED << response, soup, consumed, text, match, environ, environ0, stdout,
                    uncaught, exitStatus, writes >>

\* line 8: response.raise_for_status() raises HTTPError for a 4xx or 5xx status
RaiseForStatus ==
    /\ pc = "raise_for_status"
    /\ IF response.status_code >= 400 /\ response.status_code < 600
       THEN raised' = "HTTPError" /\ pc' = "except"
       ELSE raised' = raised /\ pc' = "parse"
    /\ UNCHANGED << response, soup, consumed, text, match, environ, environ0, stdout,
                    uncaught, exitStatus, gets, writes >>

\* Catches for a clause `except requests.exceptions.HTTPError`
CatchesHTTPError(exc) == exc = "HTTPError"

\* whether the except clause of line 9 handles exc
Catches(exc) == exc \in RequestException

\* line 9: the handler takes the exception, or it leaves the script and the
\* interpreter ends with status 1
Except ==
    /\ pc = "except"
    /\ IF Catches(raised)
       THEN pc' = "print" /\ UNCHANGED << uncaught, exitStatus >>
       ELSE pc' = "end" /\ uncaught' = raised /\ exitStatus' = 1
    /\ UNCHANGED << response, soup, consumed, text, match, environ, environ0, stdout,
                    raised, gets, writes >>

\* line 10: print ("OOps: ...", err)
PrintDiagnostic ==
    /\ pc = "print"
    /\ stdout' = Append(stdout, << Diagnostic, raised >>)
    /\ pc' = "exit"
    /\ UNCHANGED << response, soup, consumed, text, match, environ, environ0, raised,
                    uncaught, exitStatus, gets, writes >>

\* the status of a process ended by exit(*args): 0 for exit(), n for exit(n)
StatusOf(args) == IF args = << >> THEN 0 ELSE args[1]

\* ExitArgs for exit(1)
ExitArgsOne == << 1 >>

\* line 11: exit() is called without an argument
ExitArgs == << >>

\* Exit for a handler that tries the GET once more before it gives up
ExitRetries ==
    /\ pc = "exit"
    /\ IF gets < 2
       THEN pc' = "get" /\ exitStatus' = exitStatus
       ELSE pc' = "end" /\ exitStatus' = StatusOf(ExitArgs)
    /\ UNCHANGED << response, soup, consumed, text, match, environ, environ0, stdout,
                    raised, uncaught, gets, writes >>

\* line 11: exit() raises SystemExit(None)
Exit ==
    /\ pc = "exit"
    /\ exitStatus' = StatusOf(ExitArgs)
    /\ pc' = "end"
    /\ UNCHANGED << response, soup, consumed, text, match, environ, environ0, stdout,
                    raised, uncaught, gets, writes >>

\* lines 13 and 15: soup = BeautifulSoup(response.text, 'html.parser')
ParseStep ==
    /\ pc = "parse"
    /\ soup' = [bound |-> TRUE, nodes |-> Parse(response.text)]
    /\ pc' = "for"
    /\ UNCHANGED << response, consumed, text, match, environ, environ0, stdout, raised,
                    uncaught, exitStatus, gets, writes >>

\* TextStream for a scan of soup.get_text(): the text nodes joined
TextStreamJoined(nodes) ==
    LET t == Strip(Concat(nodes))
    IN  IF t = << >> THEN << >> ELSE << t >>

\* line 17: what the for loop iterates over
TextStream(nodes) == StrippedStrings(nodes)

\* Break for a loop without the break: the scan goes on
BreakContinues == "for"

\* line 23: where `break` leaves the loop to
Break == "eof"

\* line 17, the iterator yields: text is the next stripped string
ForNext ==
    /\ pc = "for"
    /\ consumed < Len(TextStream(soup.nodes))
    /\ text' = TextStream(soup.nodes)[consumed + 1]
    /\ consumed' = consumed + 1
    /\ pc' = "search"
    /\ UNCHANGED << response, soup, match, environ, environ0, stdout, raised,
                    uncaught, exitStatus, gets, writes >>

\* ForEnd for a loop with an else clause that reports the missing version
ForEndReports ==
    /\ pc = "for"
    /\ consumed = Len(TextStream(soup.nodes))
    /\ pc' = "eof"
    /\ stdout' = IF writes = 0 THEN Append(stdout, << "not found", None >>) ELSE stdout
    /\ UNCHANGED << response, soup, consumed, text, match, environ, environ0,
                    raised, uncaught, exitStatus, gets, writes >>

\* line 17, the iterator is exhausted: the loop ends
ForEnd ==
    /\ pc = "for"
    /\ consumed = Len(TextStream(soup.nodes))
    /\ pc' = "eof"
    /\ UNCHANGED << response, soup, consumed, text, match, environ, environ0,
                    stdout, raised, uncaught, exitStatus, gets, writes >>

\* line 18: match = pattern.search(text)
SearchStep ==
    /\ pc = "search"
    /\ match' = Search(text)
    /\ pc' = "if"
    /\ UNCHANGED << response, soup, consumed, text, environ, environ0, stdout,
                    raised, uncaught, exitStatus, gets, writes >>

\* lines 19-23, `if match:` taken: format, emit, break
IfMatch ==
    /\ pc = "if"
    /\ match # NoMatch
    /\ LET version == Group1(text, match)
           sdk_url == SdkUrl(version)
       IN  environ' = OutputLine(sdk_url)
    /\ writes' = writes + 1
    /\ pc' = Break
    /\ UNCHANGED << response, soup, consumed, text, match, environ0, stdout,
                    raised, uncaught, exitStatus, gets >>

\* IfNoMatch for a loop that takes the same text again
IfNoMatchRescans ==
    /\ pc = "if"
    /\ match = NoMatch
    /\ consumed' = consumed - 1
    /\ pc' = "for"
    /\ UNCHANGED << response, soup, text, match, environ, environ0, stdout,
                    raised, uncaught, exitStatus, gets, writes >>

\* line 19, `if match:` not taken: on to the next text
IfNoMatch ==
    /\ pc = "if"
    /\ match = NoMatch
    /\ pc' = "for"
    /\ UNCHANGED << response, soup, consumed, text, match, environ, environ0,
                    stdout, raised, uncaught, exitStatus, gets, writes >>

\* the end of the file: the interpreter ends with status 0
Finish ==
    /\ pc = "eof"
    /\ exitStatus' = 0
    /\ pc' = "end"
    /\ UNCHANGED << response, soup, consumed, text, match, environ, environ0, stdout,
                    raised, uncaught, gets, writes >>

Next ==
    \/ GetResponse
    \/ GetRaises
    \/ RaiseForStatus
    \/ Except
    \/ PrintDiagnostic
    \/ Exit
    \/ ParseStep
    \/ ForNext
    \/ ForEnd
    \/ SearchStep
    \/ IfMatch
    \/ IfNoMatch
    \/ Finish

Spec == Init /\ [][Next]_vars

\* the interpreter keeps executing the script's statements
FairSpec == Spec /\ WF_vars(Next)

------------------------------------------------------------------------------
(* Vocabulary of the properties *)

\* the run is over
Done == pc = "end"

\* the fetch succeeded: a response arrived and raise_for_status let it pass
FetchOk == response # NoResponse /\ raised = None /\ pc \notin { "get", "raise_for_status" }

\* the fetch failed, by a transport error or an error status
FetchFailed == raised # None

\* the document, and its stripped text nodes in document order
Document == response.text

Texts == StrippedStrings(Parse(Document))

\* the places of t where the phrase with a version starts
Occurrences(t) == { p \in 1..Len(t) : MatchesAt(t, p) }

\* the text nodes that hold the whole phrase with its version
MatchingTexts ==
    LET ts == Texts
    IN  { k \in 1..Len(ts) : Occurrences(ts[k]) # {} }

Least(S) == CHOOSE a \in S : \A b \in S : a <= b

\* v is three non-empty runs of digits separated by two dots
IsTriple(v) ==
    /\ Len(v) >= 5
    /\ \A k \in 1..Len(v) : v[k] \in Digits \cup { "." }
    /\ Cardinality({ k \in 1..Len(v) : v[k] = "." }) = 2
    /\ v[1] # "." /\ v[Len(v)] # "."
    /\ \A k \in 1..(Len(v) - 1) : ~(v[k] = "." /\ v[k + 1] = ".")

\* 'XENSERVER_SDK_URL=https://downloads.xenserver.com/sdk/V/XenServer-SDK-V.zip'
ExpectedLine(v) == OutputKey \o UrlHead \o v \o UrlMid \o v \o UrlTail

\* the places of d where the literal phrase starts
PhraseStarts(d) ==
    { p \in 1..Len(d) :
        /\ p + Len(Phrase) - 1 <= Len(d)
        /\ d[p] = Phrase[1]
        /\ SubSeq(d, p, p + Len(Phrase) - 1) = Phrase }

RECURSIVE NumberRun(_, _)
\* how many digits and dots d holds from q on, before any other character
NumberRun(d, q) ==
    IF q <= Len(d) /\ d[q] \in Digits \cup { "." }
    THEN 1 + NumberRun(d, q + 1)
    ELSE 0

\* the versions V such that the phrase followed by V is in the document, with
\* no occurrence of the pattern before it; digitAfter tells whether a digit
\* may follow V in the document
ContainedVersions(d, digitAfter) ==
    { SubSeq(d, c[1] + Len(Phrase), c[2]) :
        c \in { x \in PhraseStarts(d) \X (1..Len(d)) :
                  /\ x[2] >= x[1] + Len(Phrase)
                  /\ x[2] < x[1] + Len(Phrase) + NumberRun(d, x[1] + Len(Phrase))
                  /\ IsTriple(SubSeq(d, x[1] + Len(Phrase), x[2]))
                  /\ digitAfter \/ At(d, x[2] + 1) \notin Digits
                  /\ \A o \in Occurrences(d) : x[1] <= o } }

------------------------------------------------------------------------------
(* C1 *)

\* C1, as claimed: for every version V of three dot-separated integers, when
\* the fetch succeeds and the document contains the phrase followed by V, with
\* no earlier matching phrase, the run ends with GITHUB_OUTPUT holding exactly
\* the line built from V.
C1_AnyContainedVersionIsEmitted ==
    (Done /\ FetchOk) =>
        \A V \in ContainedVersions(Document, TRUE) : environ = ExpectedLine(V)

\* C1, amended: the same, for a V that no further digit follows in the
\* document.
C1_DelimitedVersionIsEmitted ==
    (Done /\ FetchOk) =>
        \A V \in ContainedVersions(Document, FALSE) : environ = ExpectedLine(V)

\* a finished run whose document holds the phrase with 9.1.0, the sink
\* holding the runner's value before
C1_Witness ==
    /\ Done /\ FetchOk
    /\ V910 \in ContainedVersions(Document, FALSE)
    /\ environ0 = RunnerFile
    /\ environ = ExpectedLine(V910)

------------------------------------------------------------------------------
(* C2 *)

\* C2: once the sink is written it holds the line for the version of the
\* earliest occurrence in document order, the scan has stopped, and it has
\* taken no text node after the first one that matches.
C2_FirstOccurrenceWins ==
    writes > 0 =>
        /\ Occurrences(Document) # {}
        /\ LET q == Least(Occurrences(Document)) + Len(Phrase)
           IN  environ = ExpectedLine(SubSeq(Document, q, GroupEnd(Document, q)))
        /\ pc \in { "eof", "end" }
        /\ consumed = Least(MatchingTexts)

\* a finished run over a document whose first matching text node is followed
\* by one with another version
C2_Witness ==
    /\ Done /\ writes > 0
    /\ Cardinality(MatchingTexts) >= 2
    /\ \E p1, p2 \in Occurrences(Document) :
          SubSeq(Document, p1 + Len(Phrase), GroupEnd(Document, p1 + Len(Phrase)))
            # SubSeq(Document, p2 + Len(Phrase), GroupEnd(Document, p2 + Len(Phrase)))

------------------------------------------------------------------------------
(* C3 *)

\* C3: when the fetch succeeds and no text node matches, the run ends with
\* the sink as it was before the run, nothing printed and no error raised.
C3_NoMatchNoOutput ==
    (Done /\ FetchOk /\ MatchingTexts = {}) =>
        /\ environ = environ0
        /\ writes = 0
        /\ stdout = << >>
        /\ raised = None /\ uncaught = None

\* a finished run over a document that holds the phrase, but never a version
\* after it
C3_Witness ==
    /\ Done /\ FetchOk /\ MatchingTexts = {}
    /\ \E k \in 1..Len(Texts) : PhraseStarts(Texts[k]) # {}
    /\ environ0 = RunnerFile

------------------------------------------------------------------------------
(* C4 *)

\* C4: after a failed GET the run only prints the diagnostic and ends: no
\* exception leaves the script, parse and scan never execute, and the sink
\* keeps the value it had before the run.
C4_FetchFailureIsSilent ==
    FetchFailed =>
        /\ pc \in { "except", "print", "exit", "end" }
        /\ uncaught = None
        /\ soup = NoSoup /\ consumed = 0 /\ text = << >> /\ match = NoMatch
        /\ environ = environ0 /\ writes = 0
        /\ Done => stdout = << << Diagnostic, raised >> >>

\* a finished run whose GET was answered by an error status, the body holding
\* the phrase with a version
C4_Witness ==
    /\ Done /\ raised = "HTTPError"
    /\ Occurrences(response.text) # {}
    /\ environ0 = RunnerFile

------------------------------------------------------------------------------
(* C5 *)

\* C5: in every run the sink is written at most once.
C5_AtMostOneWrite == writes <= 1

\* a finished run over a document with several matching text nodes, the later
\* ones never taken
C5_Witness ==
    /\ Done /\ writes = 1
    /\ Cardinality(MatchingTexts) >= 2
    /\ consumed < Len(Texts)

------------------------------------------------------------------------------
(* C6 *)

\* C6: requests.get is called once, at the start, and never again.
C6_ExactlyOneGet ==
    /\ gets <= 1
    /\ pc # "get" => gets = 1

\* a finished run whose only GET failed by a transport error
C6_Witness ==
    /\ Done /\ raised \in TransportErrors
    /\ gets = 1

------------------------------------------------------------------------------
(* C7 *)

\* C7: a run whose fetch failed, a run without a match and a run that emitted
\* a URL all end with exit status 0.
C7_ExitStatusNeverSignals == Done => exitStatus = 0

\* a finished run whose fetch failed, ended by exit() with status 0
C7_Witness ==
    /\ Done /\ FetchFailed
    /\ stdout # << >>
    /\ exitStatus = 0

------------------------------------------------------------------------------
(* C8 *)

\* the order of the statements
Rank(p) ==
    CASE p = "get"              -> 1
      [] p = "raise_for_status" -> 2
      [] p = "except"           -> 3
      [] p = "print"            -> 4
      [] p = "exit"             -> 5
      [] p = "parse"            -> 3
      [] p = "for"              -> 4
      [] p = "search"           -> 5
      [] p = "if"               -> 6
      [] p = "eof"              -> 7
      [] p = "end"              -> 8

FetchFailedOutcome ==
    /\ FetchFailed
    /\ stdout = << << Diagnostic, raised >> >>
    /\ environ = environ0 /\ writes = 0

NoMatchOutcome ==
    /\ ~FetchFailed
    /\ stdout = << >>
    /\ environ = environ0 /\ writes = 0

EmittedOutcome ==
    /\ ~FetchFailed
    /\ stdout = << >>
    /\ writes = 1 /\ environ # environ0

C8_Outcome ==
    /\ Done =>
          /\ FetchFailedOutcome \/ NoMatchOutcome \/ EmittedOutcome
          /\ ~(FetchFailedOutcome /\ NoMatchOutcome)
          /\ ~(FetchFailedOutcome /\ EmittedOutcome)
          /\ ~(NoMatchOutcome /\ EmittedOutcome)
    /\ writes > 0 => (FetchOk /\ soup.bound /\ MatchingTexts # {})

C8_Order ==
    /\ \/ Rank(pc') > Rank(pc)
       \/ pc = "if" /\ pc' = "for" /\ writes = 0
    /\ consumed' >= consumed
    /\ writes' > writes => (pc = "if" /\ match # NoMatch)

\* C8: every run terminates, in exactly one of the three outcomes, its steps
\* in the order fetch, parse, match, format, emit; a write to the sink comes
\* after a successful fetch and a match.
C8_LinearRun == []C8_Outcome /\ [][C8_Order]_vars /\ <>Done

\* a finished run that passed over a text without a match and then emitted
C8_Witness ==
    /\ Done /\ EmittedOutcome
    /\ consumed >= 2

------------------------------------------------------------------------------
(* C9 *)

\* C9: whenever the sink is written, it holds the key, the URL head, a
\* version, the URL middle, the same version and the URL tail, the version
\* being exactly three non-empty runs of digits separated by dots.
C9_VersionIsTriple ==
    writes > 0 =>
        \E n \in 1..Len(environ) :
            LET h == Len(OutputKey) + Len(UrlHead)
                v == SubSeq(environ, h + 1, h + n)
            IN  /\ h + n <= Len(environ)
                /\ IsTriple(v)
                /\ environ = ExpectedLine(v)

\* a finished run whose first occurrence has a fourth component .5 after the
\* version
C9_Witness ==
    /\ Done /\ writes = 1
    /\ LET e == GroupEnd(Document, Least(Occurrences(Document)) + Len(Phrase))
       IN  /\ e + 2 <= Len(Document)
           /\ SubSeq(Document, e + 1, e + 2) = Dot5

------------------------------------------------------------------------------
(* C10 *)

\* C10: a finished run has written the sink exactly when some single stripped
\* text node holds the whole phrase with its version.
C10_MatchWithinOneNode ==
    (Done /\ FetchOk) => (writes > 0 <=> MatchingTexts # {})

\* a finished run without output, over a document whose text nodes, were they
\* joined, would hold the phrase with a version
C10_Witness ==
    /\ Done /\ FetchOk /\ writes = 0
    /\ Occurrences(Concat(soup.nodes)) # {}

====
